---- MODULE Spec2Model ----
(***************************************************************************)
(* betterstack_cli.py: a command that fetches every incident of the        *)
(* BetterStack Incidents API by following pagination.next, and prints the  *)
(* collection as one JSON array.                                           *)
(*                                                                         *)
(* Python values are modelled as follows.  An optional value (None or a    *)
(* value) is a sequence of length 0 or 1: None is << >>, the value v is    *)
(* <<v>>.  A dict with a fixed set of possible keys is a record whose      *)
(* fields are optional values (<< >> = key absent).  A JSON page is a      *)
(* record that says, for the keys "data", "pagination" and "next", whether *)
(* the key is absent, null or holds a value.                               *)
(***************************************************************************)
EXTENDS Integers, Sequences, FiniteSets, TLC

\* ---------------------------------------------------------------- bounds
MaxFetches == 3

\* ------------------------------------------------------------- constants
BASE_URL == "https://uptime.betterstack.com/api/v2/incidents"
DefaultPage == 1
DefaultPerPage == 50

None == << >>
Some(v) == <<v>>

\* Python truthiness of an optional int / an optional str
TruthyInt(o) == o # None /\ o[1] # 0
\* a variant that tests "is not None"
IsNotNone(o) == o # None
TruthyStr(o) == o # None /\ o[1] # ""

\* ---------------------------------------------------- command-line input
ApiKeyFlags == {None, Some("k1")}
EnvKeys == {None, Some(""), Some("k2")}
FromDates == {None, Some("2024-01-01")}
ToDates == {None, Some("2024-12-31")}
MonitorIds == {None, Some(0), Some(42)}
HeartbeatIds == {None, Some(7)}
PerPages == {Some(2)}

\* ------------------------------------------------------- server responses
\* incidents are opaque records, named by a number; the lists a page may hold
DataLists == {<< >>, <<1>>, <<2, 1>>}
NextUrls == {"U2", BASE_URL}
ErrorStatuses == {404, 500}

\* the value under "data": key absent, null, or a list of records
DataValues ==
    {[kind |-> "absent", list |-> << >>], [kind |-> "null", list |-> << >>]}
    \cup {[kind |-> "list", list |-> l] : l \in DataLists}

\* the value under "pagination": key absent, null, or an object whose "next"
\* is absent, null or a string
PaginationValues ==
    {[kind |-> "absent", next_kind |-> "absent", next |-> ""],
     [kind |-> "null", next_kind |-> "absent", next |-> ""],
     [kind |-> "object", next_kind |-> "absent", next |-> ""],
     [kind |-> "object", next_kind |-> "null", next |-> ""],
     [kind |-> "object", next_kind |-> "string", next |-> ""]}
    \cup {[kind |-> "object", next_kind |-> "string", next |-> u] : u \in NextUrls}

Pages == [data : DataValues, pagination : PaginationValues]

NoPage == [data |-> [kind |-> "absent", list |-> << >>],
           pagination |-> [kind |-> "absent", next_kind |-> "absent", next |-> ""]]

\* An HTTP exchange as requests.get sees it: the transport fails (status 0),
\* or it delivers a status and a body that is valid JSON or is not.  The body
\* of a 4xx/5xx response is never read, so only its validity is kept; a 304
\* has no body; a 200 carries a page or an undecodable body.
Responses ==
    {[transport_ok |-> FALSE, status |-> 0, json_ok |-> FALSE, body |-> NoPage]}
    \cup {[transport_ok |-> TRUE, status |-> s, json_ok |-> j, body |-> NoPage] :
             s \in ErrorStatuses, j \in BOOLEAN}
    \cup {[transport_ok |-> TRUE, status |-> s, json_ok |-> FALSE, body |-> NoPage] :
             s \in {200, 304}}
    \cup {[transport_ok |-> TRUE, status |-> 200, json_ok |-> TRUE, body |-> p] :
             p \in Pages}

NoResponse == [transport_ok |-> FALSE, status |-> 0, json_ok |-> FALSE, body |-> NoPage]

\* ------------------------------------------------- fetch_incidents_page
NoParams == [page |-> None, per_page |-> None, from |-> None, to |-> None,
             monitor_id |-> None, heartbeat_id |-> None]

\* lines 38-50: the params dict
BuildParams(page, per_page, from_date, to_date, monitor_id, heartbeat_id) ==
    [page         |-> IF TruthyInt(page) THEN page ELSE None,
     per_page     |-> IF TruthyInt(per_page) THEN per_page ELSE None,
     from         |-> IF TruthyStr(from_date) THEN from_date ELSE None,
     to           |-> IF TruthyStr(to_date) THEN to_date ELSE None,
     monitor_id   |-> IF TruthyInt(monitor_id) THEN monitor_id ELSE None,
     heartbeat_id |-> IF TruthyInt(heartbeat_id) THEN heartbeat_id ELSE None]

\* lines 32-35: the headers dict
BuildHeaders(api_key) ==
    [Authorization |-> <<"Bearer", api_key>>, ContentType |-> "application/json"]

\* a variant that never uses the url it is given
EffectiveUrlAlwaysBase(url) == BASE_URL

\* lines 28-30: the url the request goes to
EffectiveUrl(url) == IF TruthyStr(url) THEN url[1] ELSE BASE_URL

\* a variant that sends the headers only with the first request
BuildRequestBareNext(api_key, url, page, per_page, from_date, to_date, monitor_id, heartbeat_id) ==
    LET u == EffectiveUrl(url)
        params == BuildParams(page, per_page, from_date, to_date, monitor_id, heartbeat_id)
    IN  [url |-> u,
         headers |-> IF u = BASE_URL THEN BuildHeaders(api_key)
                     ELSE [Authorization |-> << >>, ContentType |-> ""],
         params |-> IF u = BASE_URL THEN params ELSE NoParams]

\* lines 28-57: the GET request that fetch_incidents_page issues
BuildRequest(api_key, url, page, per_page, from_date, to_date, monitor_id, heartbeat_id) ==
    LET u == EffectiveUrl(url)
        params == BuildParams(page, per_page, from_date, to_date, monitor_id, heartbeat_id)
    IN  [url |-> u,
         headers |-> BuildHeaders(api_key),
         params |-> IF u = BASE_URL THEN params ELSE NoParams]

\* a variant that raises for 5xx only
RaisesForServerError(status) == status >= 500 /\ status < 600

\* line 59: requests' Response.raise_for_status raises HTTPError for 4xx and 5xx
RaisesForStatus(status) == status >= 400 /\ status < 600

\* a variant that decodes the body before it looks at the status
FetchOutcomeDecodeFirst(resp) ==
    IF ~resp.transport_ok THEN "ConnectionError"
    ELSE IF ~resp.json_ok THEN "JSONDecodeError"
    ELSE IF RaisesForStatus(resp.status) THEN "HTTPError"
    ELSE "ok"

\* a variant that takes an undecodable body for an empty page
FetchOutcomeLenient(resp) ==
    IF ~resp.transport_ok THEN "ConnectionError"
    ELSE IF RaisesForStatus(resp.status) THEN "HTTPError"
    ELSE "ok"

\* lines 55-60: what the call does with the exchange: the exception it raises,
\* or "ok" when it returns response.json()
FetchOutcome(resp) ==
    IF ~resp.transport_ok THEN "ConnectionError"
    ELSE IF RaisesForStatus(resp.status) THEN "HTTPError"
    ELSE IF ~resp.json_ok THEN "JSONDecodeError"
    ELSE "ok"

\* ---------------------------------------------------- fetch_all_incidents
\* line 88: current_page_data.get("data", [])  (None when the key holds null)
GetData(page) ==
    IF page.data.kind = "list" THEN Some(page.data.list)
    ELSE IF page.data.kind = "absent" THEN Some(<< >>)
    ELSE None

\* a variant that skips the records the accumulator already holds
ExtendDedup(all, incidents_page) ==
    all \o SelectSeq(incidents_page, LAMBDA r : \A i \in 1..Len(all) : all[i] # r)

\* line 89: all_incidents.extend(incidents_page)
Extend(all, incidents_page) == all \o incidents_page

\* a variant that falls back to the base endpoint when "next" is missing
GetNextWithDefault(page) ==
    IF page.pagination.kind = "object" /\ page.pagination.next_kind = "string"
    THEN Some(page.pagination.next)
    ELSE IF page.pagination.next_kind = "absent" THEN Some(BASE_URL)
    ELSE None

\* lines 91-92: pagination.get("next") (None when absent or null)
GetNext(page) ==
    IF page.pagination.kind = "object" /\ page.pagination.next_kind = "string"
    THEN Some(page.pagination.next)
    ELSE None

\* a variant that indexes current_page_data["pagination"]: a missing key raises
LoopBodyErrorNoPagination(page) ==
    IF page.data.kind = "null" THEN "TypeError"
    ELSE IF page.pagination.kind = "absent" THEN "KeyError"
    ELSE IF page.pagination.kind = "null" THEN "AttributeError"
    ELSE "none"

\* a variant that indexes current_page_data["data"]: a missing key raises
LoopBodyErrorStrict(page) ==
    IF page.data.kind = "absent" THEN "KeyError"
    ELSE IF page.data.kind = "null" THEN "TypeError"
    ELSE IF page.pagination.kind = "null" THEN "AttributeError"
    ELSE "none"

\* lines 88-92 raise instead of completing: extend(None) is a TypeError,
\* None.get is an AttributeError
LoopBodyError(page) ==
    IF page.data.kind = "null" THEN "TypeError"
    ELSE IF page.pagination.kind = "null" THEN "AttributeError"
    ELSE "none"

\* line 145: args.api_key or os.getenv("BETTERSTACK_API_KEY")
ResolveApiKey(flag, env) == IF TruthyStr(flag) THEN flag ELSE env

\* line 162: json.dumps(incidents, indent=2), one write to standard output
JsonArray(incidents) == [format |-> "json_array", indent |-> 2, items |-> incidents]

\* ------------------------------------------------------------------ state
VARIABLES
    args,              \* argparse namespace and the environment variable
    pc,                \* where the command is
    api_key,           \* main's api_key (an optional string)
    all_incidents,     \* fetch_all_incidents' accumulator
    current_page_data, \* the page fetch_incidents_page returned last
    requests,          \* every GET issued, in order
    response,          \* the exchange of the last GET
    served,            \* every page a fetch returned, in order
    exception,         \* the exception that ended the run, "none" if none
    stdout,            \* writes to standard output, in order
    stderr,            \* writes to standard error, in order
    exit_code          \* the process exit status, None while running

vars == <<args, pc, api_key, all_incidents, current_page_data, requests, response,
          served, exception, stdout, stderr, exit_code>>

ArgSets == [api_key_flag : ApiKeyFlags, env_key : EnvKeys, from_date : FromDates,
            to_date : ToDates, monitor_id : MonitorIds, heartbeat_id : HeartbeatIds,
            per_page : PerPages]

Init ==
    /\ args \in ArgSets
    /\ pc = "main"
    /\ api_key = None
    /\ all_incidents = << >>
    /\ current_page_data = NoPage
    /\ requests = << >>
    /\ response = NoResponse
    /\ served = << >>
    /\ exception = "none"
    /\ stdout = << >>
    /\ stderr = << >>
    /\ exit_code = None

\* lines 144-148: no credential, diagnostic and exit status 1
MissingApiKey ==
    /\ pc = "main"
    /\ ~TruthyStr(ResolveApiKey(args.api_key_flag, args.env_key))
    /\ api_key' = ResolveApiKey(args.api_key_flag, args.env_key)
    /\ stderr' = Append(stderr, "Error: No API key provided")
    /\ exit_code' = Some(1)
    /\ pc' = "exited"
    /\ UNCHANGED <<args, all_incidents, current_page_data, requests, response,
                   served, exception, stdout>>

\* lines 144-158, 74-85, 28-57: the credential is resolved, fetch_all_incidents
\* starts with an empty accumulator and issues the GET of page 1
StartTraversal ==
    /\ pc = "main"
    /\ TruthyStr(ResolveApiKey(args.api_key_flag, args.env_key))
    /\ api_key' = ResolveApiKey(args.api_key_flag, args.env_key)
    /\ all_incidents' = << >>
    /\ requests' = Append(requests,
                      BuildRequest(api_key'[1], None, Some(1), args.per_page,
                                   args.from_date, args.to_date,
                                   args.monitor_id, args.heartbeat_id))
    /\ pc' = "waiting"
    /\ UNCHANGED <<args, current_page_data, response, served, exception,
                   stdout, stderr, exit_code>>

\* the uncaught exception leaves fetch_all_incidents and main: traceback on
\* standard error, exit status 1, nothing printed
Raise(kind) ==
    /\ exception' = kind
    /\ stderr' = Append(stderr, "Traceback")
    /\ exit_code' = Some(1)
    /\ pc' = "raised"

\* lines 55-60: the server answers the outstanding GET; the call raises or
\* returns the parsed page
ReceiveResponse ==
    /\ pc = "waiting"
    /\ \E resp \in Responses :
         /\ response' = resp
         /\ IF FetchOutcome(resp) = "ok"
            THEN /\ current_page_data' = resp.body
                 /\ served' = Append(served, resp.body)
                 /\ pc' = "page"
                 /\ UNCHANGED <<exception, stderr, exit_code>>
            ELSE /\ Raise(FetchOutcome(resp))
                 /\ UNCHANGED <<current_page_data, served>>
    /\ UNCHANGED <<args, api_key, all_incidents, requests, stdout>>

\* a variant of the loop that passes the caller's filters to every fetch
LoopBodyWithFilters ==
    /\ pc = "page"
    /\ LET page == current_page_data
           next_url == GetNext(page)
       IN  IF LoopBodyError(page) # "none"
           THEN /\ Raise(LoopBodyError(page))
                /\ all_incidents' = IF page.data.kind = "null" THEN all_incidents
                                    ELSE Extend(all_incidents, GetData(page)[1])
                /\ UNCHANGED requests
           ELSE /\ all_incidents' = Extend(all_incidents, GetData(page)[1])
                /\ IF ~TruthyStr(next_url)
                   THEN /\ pc' = "returned"
                        /\ UNCHANGED requests
                   ELSE /\ Len(requests) < MaxFetches
                        /\ requests' = Append(requests,
                                          BuildRequest(api_key[1], next_url,
                                                       Some(DefaultPage), args.per_page,
                                                       args.from_date, args.to_date,
                                                       args.monitor_id, args.heartbeat_id))
                        /\ pc' = "waiting"
                /\ UNCHANGED <<exception, stderr, exit_code>>
    /\ UNCHANGED <<args, api_key, current_page_data, response, served, stdout>>

\* a variant of the loop that also stops at the first page without records
LoopBodyStopsOnEmptyPage ==
    /\ pc = "page"
    /\ LET page == current_page_data
           next_url == GetNext(page)
       IN  IF LoopBodyError(page) # "none"
           THEN /\ Raise(LoopBodyError(page))
                /\ all_incidents' = IF page.data.kind = "null" THEN all_incidents
                                    ELSE Extend(all_incidents, GetData(page)[1])
                /\ UNCHANGED requests
           ELSE /\ all_incidents' = Extend(all_incidents, GetData(page)[1])
                /\ IF ~TruthyStr(next_url) \/ GetData(page)[1] = << >>
                   THEN /\ pc' = "returned"
                        /\ UNCHANGED requests
                   ELSE /\ Len(requests) < MaxFetches
                        /\ requests' = Append(requests,
                                          BuildRequest(api_key[1], next_url,
                                                       Some(DefaultPage), Some(DefaultPerPage),
                                                       None, None, None, None))
                        /\ pc' = "waiting"
                /\ UNCHANGED <<exception, stderr, exit_code>>
    /\ UNCHANGED <<args, api_key, current_page_data, response, served, stdout>>

\* lines 88-101: one iteration of the loop: append the page's data, read
\* pagination.next, then leave the loop or issue the GET of the next page
LoopBody ==
    /\ pc = "page"
    /\ LET page == current_page_data
           next_url == GetNext(page)
       IN  IF LoopBodyError(page) # "none"
           THEN /\ Raise(LoopBodyError(page))
                /\ all_incidents' = IF page.data.kind = "null" THEN all_incidents
                                    ELSE Extend(all_incidents, GetData(page)[1])
                /\ UNCHANGED requests
           ELSE /\ all_incidents' = Extend(all_incidents, GetData(page)[1])
                /\ IF ~TruthyStr(next_url)
                   THEN /\ pc' = "returned"
                        /\ UNCHANGED requests
                   ELSE /\ Len(requests) < MaxFetches
                        /\ requests' = Append(requests,
                                          BuildRequest(api_key[1], next_url,
                                                       Some(DefaultPage), Some(DefaultPerPage),
                                                       None, None, None, None))
                        /\ pc' = "waiting"
                /\ UNCHANGED <<exception, stderr, exit_code>>
    /\ UNCHANGED <<args, api_key, current_page_data, response, served, stdout>>

\* a variant that prints what has been accumulated as soon as a page is in
PrintPartial ==
    /\ pc \in {"page", "returned"}
    /\ stdout' = Append(stdout, JsonArray(all_incidents))
    /\ exit_code' = Some(0)
    /\ pc' = "done"
    /\ UNCHANGED <<args, api_key, all_incidents, current_page_data, requests,
                   response, served, exception, stderr>>

\* line 162: the collection is printed as one JSON array; exit status 0
PrintIncidents ==
    /\ pc = "returned"
    /\ stdout' = Append(stdout, JsonArray(all_incidents))
    /\ exit_code' = Some(0)
    /\ pc' = "done"
    /\ UNCHANGED <<args, api_key, all_incidents, current_page_data, requests,
                   response, served, exception, stderr>>

Next ==
    \/ MissingApiKey
    \/ StartTraversal
    \/ ReceiveResponse
    \/ LoopBody
    \/ PrintIncidents

Spec == Init /\ [][Next]_vars

\* Termination does not depend on the filters: the fair specification runs
\* the command with the date and heartbeat filters left out.
LiveInit ==
    /\ Init
    /\ args.from_date = None
    /\ args.to_date = None
    /\ args.heartbeat_id = None

\* The command is one thread that runs each of its steps once it can, and a
\* blocking GET that completes is answered: every step is weakly fair.
LiveSpec ==
    /\ LiveInit
    /\ [][Next]_vars
    /\ WF_vars(MissingApiKey)
    /\ WF_vars(StartTraversal)
    /\ WF_vars(ReceiveResponse)
    /\ WF_vars(LoopBody)
    /\ WF_vars(PrintIncidents)

TypeOK ==
    /\ args \in ArgSets
    /\ pc \in {"main", "waiting", "page", "returned", "done", "raised", "exited"}
    /\ Len(requests) <= MaxFetches
    /\ response \in Responses
    /\ exception \in {"none", "ConnectionError", "HTTPError", "JSONDecodeError",
                      "TypeError", "AttributeError"}

\* ============================================================ properties
\* What the specification says about a page, read off the JSON shape alone.
HasNext(page) ==
    /\ page.pagination.kind = "object"
    /\ page.pagination.next_kind = "string"
    /\ page.pagination.next # ""

\* the page has the documented shape: "data" is a list or absent,
\* "pagination" is an object or absent
WellShaped(page) == page.data.kind # "null" /\ page.pagination.kind # "null"

DataOf(page) == IF page.data.kind = "list" THEN page.data.list ELSE << >>

RECURSIVE Flatten(_)
Flatten(pages) ==
    IF pages = << >> THEN << >>
    ELSE Flatten(SubSeq(pages, 1, Len(pages) - 1)) \o DataOf(pages[Len(pages)])

\* the exchange of the last GET failed (transport, status or decoding)
FetchFailed(resp) ==
    \/ ~resp.transport_ok
    \/ resp.status \in ErrorStatuses
    \/ ~resp.json_ok

\* the command has got the answer to its last GET
Answered == pc \notin {"main", "exited", "waiting"}

\* the credential the caller passed in
Credential ==
    IF args.api_key_flag # None /\ args.api_key_flag # Some("")
    THEN args.api_key_flag[1]
    ELSE args.env_key[1]

HasCredential ==
    \/ args.api_key_flag # None /\ args.api_key_flag # Some("")
    \/ args.env_key # None /\ args.env_key # Some("")

\* C1: when N pages were served, each of the documented shape, pages 1..N-1
\* with a non-empty next and page N without one, and the last page has been
\* processed, the traversal has returned after exactly N fetches and the
\* result is the concatenation of the pages' data in fetch order, nothing
\* dropped, de-duplicated or re-ordered.
C1_Concatenation ==
    LET N == Len(served)
    IN  ( /\ N >= 1
          /\ pc # "page"
          /\ \A i \in 1..N : WellShaped(served[i])
          /\ \A i \in 1..(N - 1) : HasNext(served[i])
          /\ ~HasNext(served[N]) )
        => /\ pc \in {"returned", "done"}
           /\ exception = "none"
           /\ Len(requests) = N
           /\ all_incidents = Flatten(served)

\* three pages were fetched, the first two being the same page, and the
\* result holds that page's records twice
C1_Witness ==
    /\ pc = "returned"
    /\ Len(served) = 3
    /\ served[1] = served[2]
    /\ DataOf(served[1]) = <<2, 1>>
    /\ all_incidents = <<2, 1, 2, 1, 1>>

\* C2: every request after the first (a request for a continuation URL)
\* carries no query parameter added by the client.
C2_ContinuationHasNoParams ==
    \A i \in 2..Len(requests) : requests[i].params = NoParams

\* C3: when fetch k >= 2 fails, the run ends in the error of that fetch, the
\* traversal never returns, nothing is written to standard output, the failed
\* fetch is the last one, and no step follows.
LaterFetchFailed == Answered /\ Len(requests) >= 2 /\ FetchFailed(response)

FailureKind(resp) ==
    IF ~resp.transport_ok THEN "ConnectionError"
    ELSE IF resp.status \in ErrorStatuses THEN "HTTPError"
    ELSE "JSONDecodeError"

AbortedBy(resp) ==
    /\ pc = "raised"
    /\ exception = FailureKind(resp)
    /\ exit_code = Some(1)
    /\ stdout = << >>
    /\ Len(served) = Len(requests) - 1

C3_AllOrNothing ==
    [][ /\ LaterFetchFailed' => (AbortedBy(response))'
        /\ LaterFetchFailed => FALSE ]_vars

\* the third fetch failed after two pages with records had been accumulated
C3_Witness ==
    /\ LaterFetchFailed
    /\ Len(requests) = 3
    /\ Len(all_incidents) >= 3
    /\ pc = "raised"
    /\ stdout = << >>

\* C4: the first request goes to the base endpoint with page = 1, the
\* caller's page size and, for each optional filter, the caller's value when
\* one was supplied and no parameter when none was.
C4_FirstRequestCarriesFilters ==
    Len(requests) >= 1 =>
        /\ requests[1].url = BASE_URL
        /\ requests[1].params.page = Some(1)
        /\ requests[1].params.per_page = args.per_page
        /\ requests[1].params.from = args.from_date
        /\ requests[1].params.to = args.to_date
        /\ requests[1].params.monitor_id = args.monitor_id
        /\ requests[1].params.heartbeat_id = args.heartbeat_id

\* C5: when the first fetch gets an HTTP error status, the run ends in the
\* HTTP error after exactly one fetch, and no step follows.
FirstFetchHttpError ==
    /\ Answered
    /\ served = << >>
    /\ response.transport_ok
    /\ response.status \in ErrorStatuses

C5_FirstFetchError ==
    [][ /\ FirstFetchHttpError' =>
              (pc = "raised" /\ exception = "HTTPError" /\ Len(requests) = 1
               /\ exit_code = Some(1) /\ stdout = << >>)'
        /\ FirstFetchHttpError => FALSE ]_vars

C5_Witness ==
    /\ FirstFetchHttpError
    /\ response.status = 500
    /\ exception = "HTTPError"
    /\ Len(requests) = 1

\* C6: once a fetch has returned a page of the documented shape whose
\* pagination.next is absent or empty, the traversal eventually returns the
\* accumulator, which holds every page served, and the number of requests is
\* the number of pages served: nothing was fetched after that page.
LastPageReceived ==
    /\ pc = "page"
    /\ WellShaped(current_page_data)
    /\ ~HasNext(current_page_data)

ReturnedAll ==
    /\ pc = "returned"
    /\ exception = "none"
    /\ all_incidents = Flatten(served)
    /\ Len(requests) = Len(served)
    /\ served[Len(served)] = current_page_data

C6_EventuallyReturns == LastPageReceived ~> ReturnedAll

\* the traversal returned after three fetches, the last page having an
\* empty string as next
C6_Witness ==
    /\ ReturnedAll
    /\ Len(served) = 3
    /\ current_page_data.pagination.next_kind = "string"
    /\ current_page_data.pagination.next = ""

\* C7: when the first page has no records (data empty or absent) and reports
\* no continuation link, the traversal returns the empty sequence after
\* exactly one fetch, whatever the filters.
FirstPageEmptyAndLast ==
    /\ Len(served) >= 1
    /\ pc # "page"
    /\ WellShaped(served[1])
    /\ DataOf(served[1]) = << >>
    /\ ~HasNext(served[1])

C7_NoResults ==
    FirstPageEmptyAndLast =>
        /\ pc \in {"returned", "done"}
        /\ all_incidents = << >>
        /\ Len(requests) = 1
        /\ Len(served) = 1

C7_Witness ==
    /\ FirstPageEmptyAndLast
    /\ served[1].data.kind = "absent"
    /\ args.monitor_id = Some(42)
    /\ args.from_date # None
    /\ pc = "returned"
    /\ all_incidents = << >>

\* C8: without a credential from the flag or the environment, the command
\* ends with exit status 1 and a diagnostic, issues no request and writes
\* nothing to standard output.
C8_MissingCredential ==
    (~HasCredential /\ pc # "main") =>
        /\ pc = "exited"
        /\ exit_code = Some(1)
        /\ Len(stderr) = 1
        /\ requests = << >>
        /\ stdout = << >>

C8_Witness ==
    /\ pc = "exited"
    /\ args.api_key_flag = None
    /\ args.env_key = Some("")
    /\ exit_code = Some(1)

\* C9: standard output is written at most once, only after the traversal
\* has ended on a page without a next link, and what is written is the
\* collection of all the pages fetched.
C9_OutputOnlyAtEnd ==
    /\ Len(stdout) <= 1
    /\ stdout # << >> =>
          /\ pc = "done"
          /\ exception = "none"
          /\ Len(served) >= 1
          /\ Len(requests) = Len(served)
          /\ ~HasNext(served[Len(served)])
          /\ stdout[1].items = Flatten(served)

C9_Witness ==
    /\ Len(stdout) = 1
    /\ Len(served) = 3
    /\ stdout[1].items = <<1, 2, 1, 1>>

\* C10: every request, the first and every later one, carries the bearer
\* token header built from the caller's credential and the JSON content type.
C10_HeadersOnEveryRequest ==
    \A i \in 1..Len(requests) :
        /\ requests[i].headers.Authorization = <<"Bearer", Credential>>
        /\ requests[i].headers.ContentType = "application/json"

C10_Witness ==
    /\ Len(requests) = 3
    /\ requests[2].url = "U2"
    /\ requests[3].url = BASE_URL
    /\ args.api_key_flag = None
    /\ requests[3].headers.Authorization = <<"Bearer", "k2">>

\* ---------------------------------------------------------------- C11
\* the specification's HttpError covers a failed status check and a request
\* that could not be completed
HttpErrorKinds == {"HTTPError", "ConnectionError"}

IsSuccessStatus(status) == status >= 200 /\ status < 300
IsErrorStatus(status) == status >= 400 /\ status < 600

\* the run ended in the failure `kind` of its last fetch, which is the last
\* request issued
EndedIn(kinds) ==
    /\ pc = "raised"
    /\ exception \in kinds
    /\ Len(requests) = Len(served) + 1

\* the last fetch returned the parsed body
ReturnedPage ==
    /\ exception \notin (HttpErrorKinds \cup {"JSONDecodeError"})
    /\ Len(served) = Len(requests)
    /\ served[Len(served)] = response.body

FetchOutcomeHolds ==
    Answered =>
        IF ~response.transport_ok \/ IsErrorStatus(response.status)
        THEN EndedIn(HttpErrorKinds)
        ELSE IF ~response.json_ok THEN EndedIn({"JSONDecodeError"})
        ELSE ReturnedPage

PageInHand == pc = "page" /\ WellShaped(current_page_data)

\* the step that processes the page in hand stops the traversal iff the page
\* has no next link, and otherwise issues exactly one more fetch; neither the
\* page's data nor the number of pages fetched so far plays a part
StopsIffNoNext ==
    PageInHand =>
        IF HasNext(current_page_data)
        THEN /\ pc' = "waiting"
             /\ Len(requests') = Len(requests) + 1
             /\ served' = served
        ELSE /\ pc' = "returned"
             /\ requests' = requests

\* C12: termination is governed by the next link alone.  Processing a page
\* stops the traversal iff its pagination.next is absent or empty; a page with
\* a non-empty next, whatever its data and after any number of fetches below
\* the bound of the model, is always followed by one more fetch, so the
\* number of fetches reaches every bound against a server that keeps
\* returning a next link.
C12_NextLinkGovernsTermination ==
    /\ [][StopsIffNoNext]_vars
    /\ (PageInHand /\ HasNext(current_page_data) /\ Len(requests) < MaxFetches)
          ~> (pc = "waiting")
    /\ [](pc \in {"returned", "done"} => ~HasNext(served[Len(served)]))

\* the server sent the client back to the page it had just fetched, that page
\* holding no records, and the client fetched it again
C12_Witness ==
    /\ pc = "waiting"
    /\ Len(requests) = MaxFetches
    /\ requests[Len(requests)].url = requests[Len(requests) - 1].url
    /\ DataOf(served[Len(served)]) = << >>
    /\ HasNext(served[Len(served)])

\* ---------------------------------------------------------------- C13
\* the fetches that have been answered, with a page or with a failure
AnsweredFetches ==
    Len(served) + (IF exception \in HttpErrorKinds \cup {"JSONDecodeError"} THEN 1 ELSE 0)

\* C13: pages are fetched one after the other.  At most one fetch is
\* outstanding, and one is exactly while the command waits; fetch i+1 exists
\* only when page i has been received and has a next link, its url is that
\* next value unchanged, and while it is outstanding the accumulator already
\* holds the data of pages 1..i.
C13_Sequential ==
    /\ Len(requests) - AnsweredFetches \in {0, 1}
    /\ (Len(requests) - AnsweredFetches = 1) <=> (pc = "waiting")
    /\ \A i \in 2..Len(requests) :
          /\ i - 1 <= Len(served)
          /\ HasNext(served[i - 1])
          /\ requests[i].url = served[i - 1].pagination.next
    /\ (pc = "waiting" /\ Len(requests) >= 2) => all_incidents = Flatten(served)

\* the third fetch is outstanding, for the url page 2 named, with the records
\* of pages 1 and 2 accumulated
C13_Witness ==
    /\ pc = "waiting"
    /\ Len(requests) = 3
    /\ served[1].pagination.next = BASE_URL
    /\ served[2].pagination.next = "U2"
    /\ requests[3].url = "U2"
    /\ all_incidents = <<1, 2, 1>>

\* ---------------------------------------------------------------- C14
\* the page names no next page: no "pagination" key, or a pagination object
\* whose "next" is missing, null or the empty string
NamesNoNextPage(page) ==
    \/ page.pagination.kind = "absent"
    \/ /\ page.pagination.kind = "object"
       /\ \/ page.pagination.next_kind \in {"absent", "null"}
          \/ page.pagination.next = ""

LastServed == served[Len(served)]

\* C14: missing fields are tolerated.  Once the last page fetched has been
\* processed: if it names no next page (and its "data" is not null) the
\* traversal has returned without error with everything accumulated; a page
\* without a "data" key has added no record; and the loop has raised only for
\* a "data" or a "pagination" that is null, never for a missing key.
C14_MissingFieldsTolerated ==
    (Len(served) >= 1 /\ pc \notin {"page", "waiting"} /\ exception \notin (HttpErrorKinds \cup {"JSONDecodeError"})) =>
        /\ (LastServed.data.kind # "null" /\ NamesNoNextPage(LastServed)) =>
              /\ pc \in {"returned", "done"}
              /\ exception = "none"
              /\ all_incidents = Flatten(served)
        /\ LastServed.data.kind = "absent" =>
              all_incidents = Flatten(SubSeq(served, 1, Len(served) - 1))
        /\ pc = "raised" =>
              (LastServed.data.kind = "null" \/ LastServed.pagination.kind = "null")

\* the second page had neither "data" nor "pagination", and the traversal
\* returned the records of the first page
C14_Witness ==
    /\ pc = "returned"
    /\ Len(served) = 2
    /\ LastServed.data.kind = "absent"
    /\ LastServed.pagination.kind = "absent"
    /\ all_incidents = <<2, 1>>

\* ---------------------------------------------------------------- C15
\* the request for a continuation url, as a function of the credential and
\* of the next value alone
RequestFor(credential, next) ==
    [url |-> next,
     headers |-> [Authorization |-> <<"Bearer", credential>>,
                  ContentType |-> "application/json"],
     params |-> IF next = BASE_URL
                THEN [page |-> Some(1), per_page |-> Some(50), from |-> None,
                      to |-> None, monitor_id |-> None, heartbeat_id |-> None]
                ELSE NoParams]

\* C15: every request from the second on is a function of the credential and
\* of the previous page's next value alone, so two runs with the same
\* credential and the same page responses issue the same requests from the
\* second fetch on, whatever their filters.
C15_FiltersOnlyInFirstRequest ==
    \A i \in 2..Len(requests) :
        requests[i] = RequestFor(Credential, served[i - 1].pagination.next)

\* a run with every filter supplied was sent back to the base endpoint and
\* then on to U2
C15_Witness ==
    /\ Len(requests) = 3
    /\ args.monitor_id = Some(42)
    /\ args.heartbeat_id = Some(7)
    /\ args.from_date # None
    /\ args.to_date # None
    /\ requests[1].params.monitor_id = Some(42)
    /\ requests[2].url = BASE_URL
    /\ requests[3].url = "U2"
====
